---- MODULE Spec2Model ----
(***************************************************************************)
(* Model of cloudflare-ddns.py: the poll loop (__main__), IP detection     *)
(* (getIPs / get_public_ip), purge (deleteEntries), reconciliation         *)
(* (updateIPs / commitRecord / prepareDNSRecord / processDNSRecord) and    *)
(* the provider client (cf_api), run against a provider that keeps, per    *)
(* zone, an ordered list of DNS records.                                   *)
(*                                                                         *)
(* Text values (names, addresses, response bodies) are sequences of        *)
(* one-character strings, so that strip(), lower(), split() and the        *)
(* f-string concatenation are computed and not assumed.                    *)
(***************************************************************************)
EXTENDS Integers, Sequences, FiniteSets, TLC

\* ------------------------------------------------------------------------
\* Bounds of the exploration (not program constants)
\* ------------------------------------------------------------------------

\* provider calls (cf_api) that may fail in a run
MaxFail == 1

\* poll cycles explored
MaxCycles == 2

\* ------------------------------------------------------------------------
\* Program constants
\* ------------------------------------------------------------------------

\* per_page=100 in the two dns_records list endpoints
PerPage == 100

\* config.get("ttl", 300)
DefaultTtl == 300

\* ttl = max(ttl, 1)
MinTtl == 1

\* number of entries of ip_detection_services
NumServices == 3

\* response.status_code == 200
HttpOk == 200

\* ------------------------------------------------------------------------
\* Text
\* ------------------------------------------------------------------------

Whitespace == {" ", "\n", "\t", "\r"}

\* str.lower(), on the letters the inputs use
LowerChar(c) ==
    CASE c = "H" -> "h"
      [] c = "W" -> "w"
      [] OTHER -> c

Lower(s) == [i \in 1..Len(s) |-> LowerChar(s[i])]

RECURSIVE LStrip(_)
LStrip(s) ==
    IF s # <<>> /\ Head(s) \in Whitespace THEN LStrip(Tail(s)) ELSE s

RECURSIVE RStrip(_)
RStrip(s) ==
    IF s # <<>> /\ s[Len(s)] \in Whitespace
    THEN RStrip(SubSeq(s, 1, Len(s) - 1))
    ELSE s

\* str.strip()
Strip(s) == RStrip(LStrip(s))

\* str.split(sep) for a one-character separator: always at least one piece
RECURSIVE Split(_, _)
Split(s, sep) ==
    IF \E i \in 1..Len(s) : s[i] = sep
    THEN LET i == CHOOSE k \in 1..Len(s) :
                      s[k] = sep /\ \A j \in 1..(k - 1) : s[j] # sep
         IN  <<SubSeq(s, 1, i - 1)>> \o Split(SubSeq(s, i + 1, Len(s)), sep)
    ELSE <<s>>

\* Optional values: None, or a value
None == [some |-> FALSE, v |-> <<>>]
Some(x) == [some |-> TRUE, v |-> x]

\* The body of fetchIP and of the two inlined copies in getIPs:
\*   text.split("\n"); pop(); dict(s.split("=") for s in lines)["ip"]
\* The result is None when the expression raises (a line that does not
\* split into exactly two pieces, or no "ip" key).
TraceIP(text) ==
    LET lines  == Split(text, "\n")
        popped == SubSeq(lines, 1, Len(lines) - 1)
        pairs  == [i \in 1..Len(popped) |-> Split(popped[i], "=")]
        ipIdx  == {i \in 1..Len(pairs) : pairs[i][1] = <<"i", "p">>}
    IN  IF \E i \in 1..Len(pairs) : Len(pairs[i]) # 2
        THEN None
        ELSE IF ipIdx = {}
             THEN None
             ELSE Some(pairs[CHOOSE i \in ipIdx : \A j \in ipIdx : j <= i][2])

\* text.split("\n") after pop(): the list of lines the local aaaa holds
\* when the dict expression over it raises
TraceLines(text) ==
    LET lines == Split(text, "\n")
    IN  SubSeq(lines, 1, Len(lines) - 1)

RECURSIVE JoinLines(_)
JoinLines(lines) ==
    IF lines = <<>> THEN <<>>
    ELSE Head(lines) \o <<"\n">> \o JoinLines(Tail(lines))

\* a Python list of strings as a value: no string equals it
PyList(lines) == <<"list">> \o JoinLines(lines)

\* ------------------------------------------------------------------------
\* Configuration (config.json after json.loads)
\* ------------------------------------------------------------------------

\* A subdomain target is a JSON object whose keys "name" and "proxied" may
\* each be missing; hasName / hasProxied say whether the key is there.
Target(hasName, name, hasProxied, proxied) ==
    [hasName |-> hasName, name |-> name,
     hasProxied |-> hasProxied, proxied |-> proxied]

TgtHome      == Target(TRUE, <<"h">>, FALSE, FALSE)
TgtHomeAgain == Target(TRUE, <<" ", "H">>, FALSE, FALSE)
TgtApex      == Target(TRUE, <<"@">>, FALSE, FALSE)
TgtRoot      == Target(TRUE, <<>>, TRUE, FALSE)
TgtNoName    == Target(FALSE, <<>>, TRUE, TRUE)

ZoneIds == {"z1", "z2"}

\* The zone's name as the provider reports it (GET zones/{zone_id})
ZoneName(z) == IF z = "z1" THEN <<"x", ".", "c">> ELSE <<"y", ".", "c">>

Account(zone_id, proxied, subdomains) ==
    [zone_id |-> zone_id, proxied |-> proxied, subdomains |-> subdomains]

\* hasTtl: whether config.json has a "ttl" key.  purgeUnknownRecords and
\* aaaa are the two booleans of the configuration input.
Config(accounts, hasTtl, t, purge, v6) ==
    [cloudflare |-> accounts, hasTtl |-> hasTtl, ttl |-> t,
     purgeUnknownRecords |-> purge, aaaa |-> v6]

Configs ==
    { Config(<<Account("z1", FALSE, <<TgtHome, TgtHomeAgain>>),
               Account("z2", TRUE, <<TgtApex, TgtRoot>>)>>, TRUE, 0, TRUE, TRUE),
      Config(<<Account("z1", FALSE, <<TgtHome>>),
               Account("z2", FALSE, <<TgtNoName, TgtHome>>)>>,
             FALSE, 0, FALSE, TRUE) }

\* ------------------------------------------------------------------------
\* Provider: per zone, the DNS records in the order the provider returns
\* ------------------------------------------------------------------------

NoId == 0

Rec(id, type, name, content, proxied, t) ==
    [id |-> id, type |-> type, name |-> name, content |-> content,
     proxied |-> proxied, ttl |-> t]

\* the JSON body of a create or update call: a record without identifier
NoData == [type |-> "", name |-> <<>>, content |-> <<>>,
           proxied |-> FALSE, ttl |-> 0]

Min(x, y) == IF x <= y THEN x ELSE y

Max(x, y) == IF x >= y THEN x ELSE y

\* GET zones/{zone_id}/dns_records?per_page=100&type={type}: the first
\* page of the zone's records of that type
ListRecords(zs, z, type) ==
    LET all == SelectSeq(zs[z], LAMBDA r : r.type = type)
    IN  SubSeq(all, 1, Min(Len(all), PerPage))

FreshId(recs) ==
    LET used == {recs[i].id : i \in 1..Len(recs)}
    IN  CHOOSE n \in 1..(Len(recs) + 1) :
            n \notin used /\ \A m \in 1..(n - 1) : m \in used

\* POST zones/{zone_id}/dns_records
CreateRecord(zs, z, data) ==
    [zs EXCEPT ![z] = Append(@, Rec(FreshId(@), data.type, data.name,
                                    data.content, data.proxied, data.ttl))]

\* PUT zones/{zone_id}/dns_records/{identifier}
UpdateRecord(zs, z, id, data) ==
    [zs EXCEPT ![z] =
        [i \in 1..Len(@) |->
            IF @[i].id = id
            THEN Rec(id, data.type, data.name, data.content,
                     data.proxied, data.ttl)
            ELSE @[i]]]

\* DELETE zones/{zone_id}/dns_records/{identifier}
DeleteRecord(zs, z, id) ==
    [zs EXCEPT ![z] = SelectSeq(@, LAMBDA r : r.id # id)]

\* ------------------------------------------------------------------------
\* Provider client
\* ------------------------------------------------------------------------

\* One request/response pair of cf_api.  by: "purge" (deleteEntries) or
\* "reconcile" (commitRecord); ep: "zone", "list" or "record"; opt, sub:
\* positions of the account and of the target the call was made for
\* (sub = 0: none); res: the "result" list of a successful list call.
Call(m, ep, by, type, opt, sub, id, data, ok, res) ==
    [m |-> m, ep |-> ep, by |-> by, type |-> type, opt |-> opt, sub |-> sub,
     id |-> id, data |-> data, ok |-> ok, res |-> res]

\* cf_api: response.json() when the request succeeds, None when
\* requests.exceptions.RequestException is caught
cf_api(ok, json) == IF ok THEN Some(json) ELSE None

\* "answer and answer.get('result')" for a list call
HasResult(answer) == answer.some /\ answer.v # <<>>

\* ------------------------------------------------------------------------
\* Record reconciler
\* ------------------------------------------------------------------------

\* prepareDNSRecord.  subdomain.get("name", subdomain) is the target itself
\* when it has no "name" key, and .strip() on it raises AttributeError.
prepareDNSRecord(subdomain, base_domain_name, ip, option, t) ==
    IF ~subdomain.hasName
    THEN [raised |-> TRUE, fqdn |-> <<>>, record |-> NoData]
    ELSE LET name    == Lower(Strip(subdomain.name))
             proxied == IF subdomain.hasProxied THEN subdomain.proxied
                        ELSE option.proxied
             fqdn    == IF name # <<>> /\ name # <<"@">>
                        THEN name \o <<".">> \o base_domain_name
                        ELSE base_domain_name
         IN  [raised |-> FALSE, fqdn |-> fqdn,
              record |-> [type |-> ip.type, name |-> fqdn, content |-> ip.ip,
                          proxied |-> proxied, ttl |-> t]]

\* a comparison that also looks at the ttl
ModifiedWithTtl(r, record) ==
    r.content # record.content \/ r.proxied # record.proxied
    \/ r.ttl # record.ttl

\* r['content'] != record['content'] or r['proxied'] != record['proxied']
Modified(r, record) ==
    r.content # record.content \/ r.proxied # record.proxied

\* an iteration that keeps the first record of the name
MatchStepFirst(acc, r, fqdn, record) ==
    IF r.name = fqdn /\ acc.identifier = NoId
    THEN [identifier |-> r.id, modified |-> Modified(r, record)]
    ELSE acc

\* One iteration of "for r in dns_records['result']"
MatchStep(acc, r, fqdn, record) ==
    IF r.name = fqdn
    THEN [identifier |-> r.id, modified |-> Modified(r, record)]
    ELSE acc

\* a loop that keeps the identifier of the first record of the name and
\* compares the last one
ScanRecordsFirstId(result, acc, fqdn, record) ==
    LET idx == {i \in 1..Len(result) : result[i].name = fqdn}
    IN  IF idx = {} THEN acc
        ELSE [identifier |->
                 result[CHOOSE i \in idx : \A j \in idx : i <= j].id,
              modified |->
                 Modified(result[CHOOSE i \in idx : \A j \in idx : j <= i],
                          record)]

\* The loop of processDNSRecord over the listed records
RECURSIVE ScanRecords(_, _, _, _)
ScanRecords(result, acc, fqdn, record) ==
    IF result = <<>> THEN acc
    ELSE ScanRecords(Tail(result), MatchStep(acc, Head(result), fqdn, record),
                     fqdn, record)

\* a decision that takes the last listed record whatever its name
DecideAnyName(dns_records, fqdn, record) ==
    IF ~HasResult(dns_records)
    THEN [op |-> "NONE", identifier |-> NoId]
    ELSE LET last == dns_records.v[Len(dns_records.v)]
         IN  IF Modified(last, record)
             THEN [op |-> "PUT", identifier |-> last.id]
             ELSE [op |-> "NONE", identifier |-> last.id]

\* a decision that replaces a changed record: it deletes the record found,
\* for the next cycle to create it anew
DecideReplaceChanged(dns_records, fqdn, record) ==
    IF ~HasResult(dns_records)
    THEN [op |-> "NONE", identifier |-> NoId]
    ELSE LET s == ScanRecords(dns_records.v,
                              [identifier |-> NoId, modified |-> FALSE],
                              fqdn, record)
         IN  IF s.identifier # NoId /\ s.modified
             THEN [op |-> "DELETE", identifier |-> s.identifier]
             ELSE IF s.identifier = NoId
                  THEN [op |-> "POST", identifier |-> NoId]
                  ELSE [op |-> "NONE", identifier |-> s.identifier]

\* The decision of processDNSRecord once the list call has answered:
\* "PUT", "POST" or "NONE", with the identifier a PUT is addressed to
Decide(dns_records, fqdn, record) ==
    IF ~HasResult(dns_records)
    THEN [op |-> "NONE", identifier |-> NoId]
    ELSE LET s == ScanRecords(dns_records.v,
                              [identifier |-> NoId, modified |-> FALSE],
                              fqdn, record)
         IN  IF s.identifier # NoId /\ s.modified
             THEN [op |-> "PUT", identifier |-> s.identifier]
             ELSE IF s.identifier = NoId
                  THEN [op |-> "POST", identifier |-> NoId]
                  ELSE [op |-> "NONE", identifier |-> s.identifier]

\* ------------------------------------------------------------------------
\* IP resolver
\* ------------------------------------------------------------------------

\* What an HTTP GET to a detection endpoint yields: exc = the request
\* raised requests.RequestException (timeout, connection error), else a
\* status code and a body
Response(exc, status, text) == [exc |-> exc, status |-> status, text |-> text]

Unreachable == Response(TRUE, 0, <<>>)

\* plain-text "what is my IP" answers: no answer, an answer with status
\* 503, and two answers with status 200
Responses4 ==
    { Unreachable,
      Response(FALSE, 503, <<"1">>),
      Response(FALSE, HttpOk, <<"1">>),
      Response(FALSE, HttpOk, <<" ", "2", "\n">>) }

\* /cdn-cgi/trace answers: two well-formed bodies, one whose last line is
\* the ip line without a newline after it, and an unreachable endpoint
Responses6 ==
    { Unreachable,
      Response(FALSE, HttpOk, <<"h", "=", "x", "\n", "i", "p", "=", "6", "\n">>),
      Response(FALSE, HttpOk, <<"i", "p", "=", "6", "\n", "h", "=", "x", "\n">>),
      Response(FALSE, HttpOk, <<"i", "p", "=", "6">>) }

\* get_public_ip over the answers resp of the services asked so far, in
\* order: the first that answers 200 ends the loop and its stripped body
\* is returned; the function raises when all services were asked and none
\* did.  queried: how many services were asked.
RECURSIVE TryServices(_, _)
TryServices(resp, i) ==
    IF i > Len(resp)
    THEN [returned |-> FALSE, raised |-> i > NumServices, ip |-> <<>>,
          queried |-> Len(resp)]
    ELSE IF ~resp[i].exc /\ resp[i].status = HttpOk
         THEN [returned |-> TRUE, raised |-> FALSE,
               ip |-> Strip(resp[i].text), queried |-> i]
         ELSE TryServices(resp, i + 1)

\* a lookup that takes the body of the first service that answers at all,
\* whatever its status
get_public_ip_any_status(resp) ==
    LET ans == {i \in 1..Len(resp) : ~resp[i].exc}
    IN  IF ans = {}
        THEN [returned |-> FALSE, raised |-> Len(resp) >= NumServices,
              ip |-> <<>>, queried |-> Len(resp)]
        ELSE LET i == CHOOSE n \in ans : \A m \in ans : n <= m
             IN  [returned |-> TRUE, raised |-> FALSE,
                  ip |-> Strip(resp[i].text), queried |-> i]

\* get_public_ip(): the loop over the services from the first one
get_public_ip(resp) == TryServices(resp, 1)

\* requests.get(url).text parsed as a trace: None when the request or the
\* parsing raises
FetchTrace(r) == IF r.exc THEN None ELSE TraceIP(r.text)

\* the local aaaa after an attempt on a trace endpoint has raised: what it
\* held before when the request raised, the list of lines when the request
\* answered and the dict expression raised
TraceLeft(r, old) == IF r.exc THEN old ELSE Some(PyList(TraceLines(r.text)))

\* One detection request of the cycle (fam: "ipv4" or "ipv6"; n: position
\* of the endpoint in its fallback chain)
Probe(fam, n, r) == [fam |-> fam, n |-> n, r |-> r]

\* "if a is not None: ips['ipv4'] = ..." and the same for aaaa; the dict
\* keeps insertion order, so ips.values() is this sequence
BuildIps(va, vaaaa) ==
    (IF va.some THEN <<[type |-> "A", ip |-> va.v]>> ELSE <<>>)
    \o (IF vaaaa.some THEN <<[type |-> "AAAA", ip |-> vaaaa.v]>> ELSE <<>>)

\* ------------------------------------------------------------------------
\* Purge manager
\* ------------------------------------------------------------------------

\* a provider call decided on and not yet made
Pending(op, identifier, record) ==
    [op |-> op, identifier |-> identifier, record |-> record]

\* "for record in answer['result']": one DELETE per listed record
Deletes(result) ==
    [i \in 1..Len(result) |-> Pending("DELETE", result[i].id, NoData)]

\* number of failed calls in a sequence of calls
RECURSIVE Failed(_)
Failed(calls) ==
    IF calls = <<>> THEN 0
    ELSE (IF Head(calls).ok THEN 0 ELSE 1) + Failed(Tail(calls))

\* ------------------------------------------------------------------------
\* State
\* ------------------------------------------------------------------------

VARIABLES
    config,                       \* the parsed config.json
    zones,                        \* provider: zone id -> its records
    ipv4_enabled, ipv6_enabled,   \* globals of the script
    purgeUnknownRecords,
    ttl,
    kill_now,                     \* GracefulExit.kill_now
    shown_ipv4_warning,
    shown_ipv6_warning,
    shown_ipv6_warning_secondary,
    pc,                           \* position of the main thread
    a, aaaa,                      \* locals a and aaaa of getIPs
    asked,                        \* endpoints of the block of getIPs under
                                  \* way that have answered or failed
    todo,                         \* provider calls decided on, not yet made
    ips,                          \* global ips, as the sequence ips.values()
    ipIdx, optIdx, subIdx,        \* positions of the for loops over the
                                  \* addresses, the accounts, the targets
    base_domain_name,             \* local of commitRecord
    log,                          \* cf_api calls of the current cycle
    out,                          \* messages printed by the last step
    net,                          \* detection requests of the block of
                                  \* getIPs under way or just left
    seen,                         \* addresses the endpoints gave this cycle
    fails,                        \* failed cf_api calls so far
    cycle                         \* poll cycles started so far

vars == <<config, zones, ipv4_enabled, ipv6_enabled, purgeUnknownRecords, ttl,
          kill_now, shown_ipv4_warning, shown_ipv6_warning,
          shown_ipv6_warning_secondary, pc, a, aaaa, asked, todo, ips, ipIdx,
          optIdx, subIdx, base_domain_name, log, out, net, seen, fails, cycle>>

globals == <<config, ipv4_enabled, ipv6_enabled, purgeUnknownRecords, ttl,
             cycle>>

warnings == <<shown_ipv4_warning, shown_ipv6_warning,
              shown_ipv6_warning_secondary>>

\* what only getIPs and deleteEntries change
resolver == <<warnings, aaaa, asked>>

Msg(msg, type, n) == [msg |-> msg, type |-> type, n |-> n]

HX == <<"h", ".", "x", ".", "c">>
OX == <<"o", ".", "x", ".", "c">>
HY == <<"h", ".", "y", ".", "c">>

\* provider-side records the script may find when it starts
InitialZones ==
    { [z \in ZoneIds |-> <<>>],
      [z \in ZoneIds |->
          IF z = "z1"
          THEN <<Rec(1, "A", OX, <<"9">>, FALSE, 1)>>
          ELSE <<Rec(1, "A", ZoneName("z2"), <<"1">>, TRUE, 120),
                 Rec(2, "AAAA", HY, <<"6">>, FALSE, 300)>>],
      [z \in ZoneIds |->
          IF z = "z1"
          THEN <<Rec(1, "A", HX, <<"1">>, FALSE, 1),
                 Rec(2, "AAAA", HX, <<"6">>, FALSE, 300),
                 Rec(3, "A", HX, <<"9">>, FALSE, 300)>>
          ELSE <<Rec(1, "A", HY, <<"2">>, TRUE, 120)>>] }

\* the configured ttl taken as it is
ConfigTtlAsIs(cfg) == IF cfg.hasTtl THEN cfg.ttl ELSE DefaultTtl

\* ttl = config.get("ttl", 300); ttl = max(ttl, 1)
EffectiveTtl(cfg) == Max(IF cfg.hasTtl THEN cfg.ttl ELSE DefaultTtl, MinTtl)

\* a module-level name that no statement has assigned yet: reading it
\* raises NameError
Unbound == [bound |-> FALSE, v |-> FALSE]

\* a module-level name that holds the boolean b
Bound(b) == [bound |-> TRUE, v |-> b]

\* The part of the start state that does not depend on the module-level
\* names getIPs reads
InitCommon ==
    /\ config \in Configs
    /\ zones \in InitialZones
    /\ ttl = EffectiveTtl(config)
    /\ kill_now = FALSE
    /\ pc = "check"
    /\ a = None /\ aaaa = None
    /\ asked = 0
    /\ todo = <<>>
    /\ ips = <<>>
    /\ ipIdx = 0 /\ optIdx = 0 /\ subIdx = 0
    /\ base_domain_name = <<>>
    /\ log = <<>> /\ out = <<>> /\ net = <<>> /\ seen = <<>>
    /\ fails = 0
    /\ cycle = 0

\* The script as run: the state when the while loop is first reached.
\* The three toggles are assigned literals and never read from config; the
\* three warning flags are declared global inside getIPs and assigned
\* nowhere else, so they are unbound.
Init ==
    /\ InitCommon
    /\ shown_ipv4_warning = Unbound
    /\ shown_ipv6_warning = Unbound
    /\ shown_ipv6_warning_secondary = Unbound
    /\ ipv4_enabled = TRUE
    /\ ipv6_enabled = TRUE
    /\ purgeUnknownRecords = FALSE

\* ------------------------------------------------------------------------
\* Poll loop
\* ------------------------------------------------------------------------

\* GracefulExit.exit_gracefully: a SIGINT or SIGTERM, the first or a later
\* one, prints and sets the event while the main thread waits in a blocking
\* call (a request or the sleep); that call then resumes where it was
Signal ==
    /\ pc \notin {"stopped", "crashed"}
    /\ kill_now' = TRUE
    /\ out' = <<Msg("stopping", "", 0)>>
    /\ UNCHANGED <<globals, zones, resolver, todo, pc, a, ips, ipIdx, optIdx,
                   subIdx, base_domain_name, log, net, seen, fails>>

\* "while not killer.kill_now.is_set()"
LoopCondition(k) == ~k

\* the loop condition holds: a new cycle starts with the call of getIPs
\* and its "a = None"
LoopEnter ==
    /\ pc = "check"
    /\ LoopCondition(kill_now)
    /\ cycle < MaxCycles
    /\ cycle' = cycle + 1
    /\ pc' = "detect4"
    /\ a' = None
    /\ log' = <<>> /\ seen' = <<>>
    /\ out' = <<>> /\ net' = <<>>
    /\ UNCHANGED <<config, ipv4_enabled, ipv6_enabled, purgeUnknownRecords,
                   ttl, zones, kill_now, resolver, todo, ips, ipIdx, optIdx,
                   subIdx, base_domain_name, fails>>

\* the loop condition fails: the script ends
LoopExit ==
    /\ pc = "check"
    /\ ~LoopCondition(kill_now)
    /\ pc' = "stopped"
    /\ out' = <<>> /\ net' = <<>>
    /\ UNCHANGED <<globals, zones, kill_now, resolver, todo,
                   a, ips, ipIdx, optIdx,
                   subIdx, base_domain_name, log, seen, fails>>

\* time.sleep(ttl) returns; the ghost out records the interval slept
Sleep ==
    /\ pc = "sleep"
    /\ pc' = "check"
    /\ out' = <<Msg("slept", "", ttl)>> /\ net' = <<>>
    /\ UNCHANGED <<globals, zones, kill_now, resolver, todo,
                   a, ips, ipIdx, optIdx,
                   subIdx, base_domain_name, log, seen, fails>>

\* ------------------------------------------------------------------------
\* getIPs
\* ------------------------------------------------------------------------

\* a purge that does not look at the toggle
PurgeAlways(purge) == TRUE

\* "if purgeUnknownRecords:" in the two except branches of getIPs
PurgeOnFailure(purge) == purge

\* deleteEntries(type), one provider call at a time: the call awaited
\* returns, with or without an error.  With nothing decided on it is the
\* list call of account optIdx, whose result decides on one DELETE per
\* record; otherwise it is the first DELETE decided on, followed by the
\* print of the record's id whether or not the call succeeded.
deleteEntries(type) ==
    LET z == config.cloudflare[optIdx].zone_id
    IN  \E ok \in BOOLEAN :
           /\ ok \/ fails < MaxFail
           /\ fails' = fails + (IF ok THEN 0 ELSE 1)
           /\ IF todo = <<>>
              THEN LET answer == cf_api(ok, ListRecords(zones, z, type))
                   IN  /\ log' = Append(log, Call("GET", "list", "purge", type,
                                                  optIdx, 0, NoId, NoData, ok,
                                                  answer.v))
                       /\ zones' = zones
                       /\ out' = <<>>
                       /\ todo' = IF HasResult(answer) THEN Deletes(answer.v)
                                  ELSE <<>>
              ELSE /\ log' = Append(log, Call("DELETE", "record", "purge",
                                              type, optIdx, 0,
                                              Head(todo).identifier, NoData,
                                              ok, <<>>))
                   /\ zones' = IF ok
                               THEN DeleteRecord(zones, z,
                                                 Head(todo).identifier)
                               ELSE zones
                   /\ out' = <<Msg("deleted", type, Head(todo).identifier)>>
                   /\ todo' = Tail(todo)

\* handleIPError(ip_type, record_type), one request at a time: called
\* (optIdx = 0) it prints that the family was not detected and tests the
\* toggle; with the toggle set the calls of deleteEntries(record_type)
\* follow, account by account, and the function has returned when optIdx
\* is 0 again.  No statement of the script calls this function, so no
\* disjunct of Next is this step.
handleIPError(ip_type, record_type) ==
    /\ IF optIdx = 0
       THEN /\ out' = <<Msg("not_detected", ip_type, 0)>>
            /\ optIdx' = IF /\ PurgeOnFailure(purgeUnknownRecords)
                            /\ config.cloudflare # <<>>
                         THEN 1 ELSE 0
            /\ UNCHANGED <<todo, zones, log, fails>>
       ELSE /\ deleteEntries(record_type)
            /\ optIdx' = IF todo' # <<>> THEN optIdx
                         ELSE IF optIdx < Len(config.cloudflare)
                              THEN optIdx + 1 ELSE 0
    /\ UNCHANGED <<globals, kill_now, resolver, pc, a, ips, ipIdx, subIdx,
                   base_domain_name, net, seen>>

\* no handler: the exception leaves the main loop and ends the script
ExceptionEscapes == "crashed"

\* the "if ipv4_enabled:" block of getIPs is left for the "if
\* ipv6_enabled:" block
EnterIPv6 == pc' = "detect6" /\ asked' = 0 /\ optIdx' = 0

\* "if ipv4_enabled:" block of getIPs, one request at a time: the request
\* awaited (to a detection service, or a provider call of the purge)
\* returns and the thread runs on to its next request.  The except branch
\* reads shown_ipv4_warning first: while the name is unbound that read
\* raises NameError, which nothing catches, before the warning and the
\* purge.
DetectIPv4 ==
    /\ pc = "detect4"
    /\ IF ~ipv4_enabled
       THEN /\ EnterIPv6
            /\ out' = <<>>
            /\ UNCHANGED <<a, seen, net, shown_ipv4_warning, todo, zones, log,
                           fails>>
       ELSE IF optIdx = 0
       THEN \E r \in Responses4 :
               LET resp  == [i \in 1..(asked + 1) |->
                               IF i <= asked THEN net[i].r ELSE r]
                   res   == get_public_ip(resp)
                   error == IF r.exc
                            THEN <<Msg("service_error", "A", asked + 1)>>
                            ELSE <<>>
               IN  /\ net' = Append(net, Probe("ipv4", asked + 1, r))
                   /\ UNCHANGED <<todo, zones, log, fails>>
                   /\ IF res.returned
                      THEN /\ EnterIPv6
                           /\ a' = Some(res.ip)
                           /\ seen' = BuildIps(Some(res.ip), None)
                           /\ out' = error
                           /\ UNCHANGED shown_ipv4_warning
                      ELSE IF ~res.raised
                      THEN /\ asked' = asked + 1
                           /\ out' = error
                           /\ UNCHANGED <<pc, a, seen, optIdx,
                                          shown_ipv4_warning>>
                      ELSE IF ~shown_ipv4_warning.bound
                      THEN /\ pc' = ExceptionEscapes
                           /\ out' = error
                           /\ UNCHANGED <<a, seen, asked, optIdx,
                                          shown_ipv4_warning>>
                      ELSE /\ shown_ipv4_warning' = Bound(TRUE)
                           /\ out' = error
                                \o (IF shown_ipv4_warning.v THEN <<>>
                                    ELSE <<Msg("ipv4_failed", "A", 0)>>)
                           /\ UNCHANGED <<a, seen>>
                           /\ IF /\ PurgeOnFailure(purgeUnknownRecords)
                                 /\ config.cloudflare # <<>>
                              THEN /\ optIdx' = 1
                                   /\ asked' = 0
                                   /\ UNCHANGED pc
                              ELSE EnterIPv6
       ELSE /\ deleteEntries("A")
            /\ UNCHANGED <<a, seen, net, shown_ipv4_warning>>
            /\ IF todo' # <<>>
               THEN UNCHANGED <<pc, asked, optIdx>>
               ELSE IF optIdx < Len(config.cloudflare)
                    THEN optIdx' = optIdx + 1 /\ UNCHANGED <<pc, asked>>
                    ELSE EnterIPv6
    /\ UNCHANGED <<globals, kill_now, shown_ipv6_warning,
                   shown_ipv6_warning_secondary, aaaa, ips, ipIdx, subIdx,
                   base_domain_name>>

\* an assignment made only while no addresses are held
AssignIpsOnce(new, old) == IF old = <<>> THEN new ELSE old

\* "ips = getIPs()" in the main loop
AssignIps(new, old) == new

\* the end of getIPs with v6 in the local aaaa: the construction of ips,
\* the return to the main loop and the entry into updateIPs
ReturnIps(v6) ==
    /\ pc' = "update"
    /\ ipIdx' = 1
    /\ ips' = AssignIps(BuildIps(a, v6), ips)
    /\ a' = None /\ aaaa' = None
    /\ asked' = 0 /\ optIdx' = 0

\* "if ipv6_enabled:" block of getIPs and the end of getIPs, one request
\* at a time: the request awaited (to a trace endpoint, or a provider call
\* of the purge) returns and the thread runs on to its next request.  Each
\* except branch reads its warning flag first: while that name is unbound
\* the read raises NameError, which nothing catches; in the outer branch
\* this happens before the secondary endpoint is asked.
DetectIPv6 ==
    /\ pc = "detect6"
    /\ IF ~ipv6_enabled
       THEN /\ ReturnIps(aaaa)
            /\ out' = <<>> /\ net' = <<>>
            /\ UNCHANGED <<seen, shown_ipv6_warning,
                           shown_ipv6_warning_secondary, todo, zones, log,
                           fails>>
       ELSE IF optIdx = 0
       THEN \E r \in Responses6 :
               LET got  == FetchTrace(r)
                   left == TraceLeft(r, aaaa)
               IN  /\ net' = IF asked = 0 THEN <<Probe("ipv6", 1, r)>>
                              ELSE Append(net, Probe("ipv6", asked + 1, r))
                   /\ UNCHANGED <<todo, zones, log, fails>>
                   /\ IF got.some
                      THEN /\ ReturnIps(got)
                           /\ seen' = seen \o BuildIps(None, got)
                           /\ out' = <<>>
                           /\ UNCHANGED <<shown_ipv6_warning,
                                          shown_ipv6_warning_secondary>>
                      ELSE IF asked = 0
                      THEN IF ~shown_ipv6_warning.bound
                           THEN /\ pc' = ExceptionEscapes
                                /\ out' = <<>>
                                /\ UNCHANGED <<a, aaaa, asked, optIdx, ips,
                                               ipIdx, seen, shown_ipv6_warning,
                                               shown_ipv6_warning_secondary>>
                           ELSE /\ asked' = 1
                                /\ aaaa' = left
                                /\ shown_ipv6_warning' = Bound(TRUE)
                                /\ out' = IF shown_ipv6_warning.v THEN <<>>
                                          ELSE <<Msg("ipv6_primary", "AAAA",
                                                     1)>>
                                /\ UNCHANGED <<pc, a, optIdx, ips, ipIdx, seen,
                                               shown_ipv6_warning_secondary>>
                      ELSE IF ~shown_ipv6_warning_secondary.bound
                           THEN /\ pc' = ExceptionEscapes
                                /\ out' = <<>>
                                /\ UNCHANGED <<a, aaaa, asked, optIdx, ips,
                                               ipIdx, seen, shown_ipv6_warning,
                                               shown_ipv6_warning_secondary>>
                           ELSE /\ shown_ipv6_warning_secondary' = Bound(TRUE)
                                /\ out' = IF shown_ipv6_warning_secondary.v
                                          THEN <<>>
                                          ELSE <<Msg("ipv6_secondary", "AAAA",
                                                     2)>>
                                /\ UNCHANGED <<seen, shown_ipv6_warning>>
                                /\ IF /\ PurgeOnFailure(purgeUnknownRecords)
                                      /\ config.cloudflare # <<>>
                                   THEN /\ optIdx' = 1
                                        /\ asked' = 0
                                        /\ aaaa' = left
                                        /\ UNCHANGED <<pc, a, ips, ipIdx>>
                                   ELSE ReturnIps(left)
       ELSE /\ deleteEntries("AAAA")
            /\ UNCHANGED <<net, seen, shown_ipv6_warning,
                           shown_ipv6_warning_secondary>>
            /\ IF todo' # <<>>
               THEN UNCHANGED <<pc, a, aaaa, asked, optIdx, ips, ipIdx>>
               ELSE IF optIdx < Len(config.cloudflare)
                    THEN /\ optIdx' = optIdx + 1
                         /\ UNCHANGED <<pc, a, aaaa, asked, ips, ipIdx>>
                    ELSE ReturnIps(aaaa)
    /\ UNCHANGED <<globals, kill_now, shown_ipv4_warning, subIdx,
                   base_domain_name>>

\* ------------------------------------------------------------------------
\* updateIPs / commitRecord / processDNSRecord
\* ------------------------------------------------------------------------

\* "for ip in ips.values()": the next detected address, commitRecord called
UpdateNext ==
    /\ pc = "update"
    /\ ipIdx <= Len(ips)
    /\ pc' = "commit"
    /\ optIdx' = 1
    /\ out' = <<>> /\ net' = <<>>
    /\ UNCHANGED <<globals, zones, kill_now, resolver, todo,
                   a, ips, ipIdx, subIdx,
                   base_domain_name, log, seen, fails>>

\* the loop of updateIPs is exhausted: back in the main loop, time.sleep
UpdateDone ==
    /\ pc = "update"
    /\ ipIdx > Len(ips)
    /\ pc' = "sleep"
    /\ ipIdx' = 0
    /\ out' = <<>> /\ net' = <<>>
    /\ UNCHANGED <<globals, zones, kill_now, resolver, todo,
                   a, ips, optIdx, subIdx,
                   base_domain_name, log, seen, fails>>

\* what the zone lookup of commitRecord may answer: the zone object, a
\* body whose "result" is null, or a failed request
ZoneAnswers == {"ok", "noresult", "error"}

\* "for option in config['cloudflare']": the zone lookup of the next
\* account; the account is skipped unless the answer has a result
ZoneLookup ==
    /\ pc = "commit"
    /\ optIdx <= Len(config.cloudflare)
    /\ \E ans \in ZoneAnswers :
          LET option   == config.cloudflare[optIdx]
              ok       == ans # "error"
              response == cf_api(ok, IF ans = "ok"
                                     THEN Some(ZoneName(option.zone_id))
                                     ELSE None)
              usable   == response.some /\ response.v.some
          IN  /\ ans # "ok" => fails < MaxFail
              /\ fails' = fails + (IF ans = "ok" THEN 0 ELSE 1)
              /\ log' = Append(log, Call("GET", "zone", "reconcile",
                                         ips[ipIdx].type, optIdx, 0, NoId,
                                         NoData, usable, <<>>))
              /\ IF usable
                 THEN /\ base_domain_name' = response.v.v
                      /\ subIdx' = 1
                      /\ pc' = "target"
                      /\ UNCHANGED optIdx
                 ELSE /\ optIdx' = optIdx + 1
                      /\ UNCHANGED <<base_domain_name, subIdx, pc>>
    /\ out' = <<>> /\ net' = <<>>
    /\ UNCHANGED <<globals, zones, kill_now, resolver, todo,
                   a, ips, ipIdx, seen>>

\* commitRecord returns: updateIPs prints its success line
CommitDone ==
    /\ pc = "commit"
    /\ optIdx > Len(config.cloudflare)
    /\ pc' = "update"
    /\ out' = <<Msg("updated", ips[ipIdx].type, ipIdx)>>
    /\ net' = <<>>
    /\ ipIdx' = ipIdx + 1
    /\ optIdx' = 0
    /\ base_domain_name' = <<>>
    /\ UNCHANGED <<globals, zones, kill_now, resolver, todo,
                   a, ips, subIdx, log,
                   seen, fails>>

\* where an exception raised inside commitRecord is handled: the except
\* clause of updateIPs, after which its for loop goes on
ExceptionHandledAt == "update"

\* "for subdomain in subdomains": prepareDNSRecord raises for this target
TargetRaises ==
    /\ pc = "target"
    /\ subIdx <= Len(config.cloudflare[optIdx].subdomains)
    /\ LET option == config.cloudflare[optIdx]
           p == prepareDNSRecord(option.subdomains[subIdx], base_domain_name,
                                 ips[ipIdx], option, ttl)
       IN  /\ p.raised
           /\ pc' = ExceptionHandledAt
           /\ out' = <<Msg("failed", ips[ipIdx].type, ipIdx)>>
    /\ net' = <<>>
    /\ ipIdx' = ipIdx + 1
    /\ optIdx' = 0
    /\ subIdx' = 0
    /\ base_domain_name' = <<>>
    /\ UNCHANGED <<globals, zones, kill_now, resolver, todo, a, ips, log, seen,
                   fails>>

\* "for subdomain in subdomains": prepareDNSRecord and processDNSRecord
\* for the next target, one provider call at a time: the call awaited
\* returns, with or without an error.  With nothing decided on it is the
\* list call, whose answer decides on a PUT, a POST or nothing; otherwise
\* it is the write decided on.
ProcessTarget ==
    /\ pc = "target"
    /\ subIdx <= Len(config.cloudflare[optIdx].subdomains)
    /\ LET option == config.cloudflare[optIdx]
           z      == option.zone_id
           ip     == ips[ipIdx]
           p      == prepareDNSRecord(option.subdomains[subIdx],
                                      base_domain_name, ip, option, ttl)
       IN  /\ ~p.raised
           /\ \E ok \in BOOLEAN :
                 /\ ok \/ fails < MaxFail
                 /\ fails' = fails + (IF ok THEN 0 ELSE 1)
                 /\ IF todo = <<>>
                    THEN LET dns_records == cf_api(ok, ListRecords(zones, z,
                                                                  ip.type))
                             d == Decide(dns_records, p.fqdn, p.record)
                         IN  /\ log' = Append(log,
                                   Call("GET", "list", "reconcile", ip.type,
                                        optIdx, subIdx, NoId, NoData, ok,
                                        dns_records.v))
                             /\ zones' = zones
                             /\ IF d.op = "NONE"
                                THEN /\ todo' = <<>>
                                     /\ subIdx' = subIdx + 1
                                     /\ out' = <<>>
                                ELSE /\ todo' = <<Pending(d.op, d.identifier,
                                                          p.record)>>
                                     /\ subIdx' = subIdx
                                     /\ out' = IF d.op = "PUT"
                                               THEN <<Msg("updating", ip.type,
                                                          ipIdx)>>
                                               ELSE <<Msg("adding", ip.type,
                                                          ipIdx)>>
                    ELSE LET w == Head(todo)
                         IN  /\ log' = Append(log,
                                   Call(w.op, "record", "reconcile", ip.type,
                                        optIdx, subIdx, w.identifier, w.record,
                                        ok, <<>>))
                             /\ zones' =
                                  IF ~ok THEN zones
                                  ELSE IF w.op = "PUT"
                                       THEN UpdateRecord(zones, z,
                                                         w.identifier,
                                                         w.record)
                                       ELSE CreateRecord(zones, z, w.record)
                             /\ todo' = <<>>
                             /\ subIdx' = subIdx + 1
                             /\ out' = <<>>
    /\ net' = <<>>
    /\ UNCHANGED <<globals, kill_now, resolver, pc, a, ips, ipIdx, optIdx,
                   base_domain_name, seen>>

\* the targets of the account are exhausted: on to the next account
TargetsDone ==
    /\ pc = "target"
    /\ subIdx > Len(config.cloudflare[optIdx].subdomains)
    /\ pc' = "commit"
    /\ optIdx' = optIdx + 1
    /\ subIdx' = 0
    /\ base_domain_name' = <<>>
    /\ out' = <<>> /\ net' = <<>>
    /\ UNCHANGED <<globals, zones, kill_now, resolver, todo, a, ips, ipIdx, log,
                   seen, fails>>

\* ------------------------------------------------------------------------
\* Specifications
\* ------------------------------------------------------------------------

\* the steps of the main thread
Program ==
    \/ LoopEnter
    \/ LoopExit
    \/ DetectIPv4
    \/ DetectIPv6
    \/ UpdateNext
    \/ UpdateDone
    \/ ZoneLookup
    \/ CommitDone
    \/ TargetRaises
    \/ ProcessTarget
    \/ TargetsDone
    \/ Sleep

Next == Program \/ Signal

\* the script as run
Spec == Init /\ [][Next]_vars

\* the script started with the configuration that has a target without a
\* name, on zones that hold several records
InitFair ==
    /\ Init
    /\ \E o \in 1..Len(config.cloudflare) :
          \E s \in 1..Len(config.cloudflare[o].subdomains) :
             ~config.cloudflare[o].subdomains[s].hasName
    /\ Len(zones["z1"]) > 1

\* the script as run, where every call the main thread makes returns
\* (requests time out or answer) and a sleep ends
SpecFair == InitFair /\ [][Next]_vars /\ WF_vars(Program)

\* ------------------------------------------------------------------------
\* Vocabulary of the properties
\* ------------------------------------------------------------------------

LogIdx == 1..Len(log)

\* the calls of the cycle made while reconciling target s of account o
\* for record type t, with method m
TargetCalls(m, t, o, s) ==
    SelectSeq(log, LAMBDA c : /\ c.by = "reconcile" /\ c.ep = "record"
                              /\ c.m = m /\ c.type = t
                              /\ c.opt = o /\ c.sub = s)

\* the address of type t the endpoints gave in this cycle
SeenIp(t) == seen[CHOOSE i \in 1..Len(seen) : seen[i].type = t]

Detected(t) == \E i \in 1..Len(seen) : seen[i].type = t

\* the name and the record the configuration asks for, for target s of
\* account o and the address detected for type t
Desired(t, o, s) ==
    LET option == config.cloudflare[o]
    IN  prepareDNSRecord(option.subdomains[s], ZoneName(option.zone_id),
                         SeenIp(t), option, ttl)

\* the listed records named fqdn, and the last of them
Matches(res, fqdn) == {i \in 1..Len(res) : res[i].name = fqdn}

LastMatch(res, fqdn) ==
    res[CHOOSE i \in Matches(res, fqdn) : \A j \in Matches(res, fqdn) : j <= i]

\* call c is the list call of the target under way, whose write has been
\* decided on and is not yet made
WriteAwaited(c) ==
    /\ pc = "target" /\ todo # <<>>
    /\ c.type = ips[ipIdx].type /\ c.opt = optIdx /\ c.sub = subIdx

\* a successful list call of the reconciler, for a target that
\* processDNSRecord has dealt with
IsListing(c) ==
    c.by = "reconcile" /\ c.ep = "list" /\ c.ok /\ ~WriteAwaited(c)

\* ------------------------------------------------------------------------
\* Properties
\* ------------------------------------------------------------------------

\* C1: whenever the records listed for a target hold none with the
\* target's fully-qualified name (the listing may be empty), exactly one
\* POST with the desired record and no PUT is issued for that target.
C1_CreateWhenAbsent ==
    \A i \in LogIdx :
        LET c == log[i] IN
        (IsListing(c) /\ Matches(c.res, Desired(c.type, c.opt, c.sub).fqdn) = {})
        => /\ TargetCalls("POST", c.type, c.opt, c.sub)
                = <<Call("POST", "record", "reconcile", c.type, c.opt, c.sub,
                         NoId, Desired(c.type, c.opt, c.sub).record,
                         TRUE, <<>>)>>
              \/ TargetCalls("POST", c.type, c.opt, c.sub)
                   = <<Call("POST", "record", "reconcile", c.type, c.opt,
                            c.sub, NoId, Desired(c.type, c.opt, c.sub).record,
                            FALSE, <<>>)>>
           /\ TargetCalls("PUT", c.type, c.opt, c.sub) = <<>>

\* C2: whenever the records listed for a target hold one with the
\* target's fully-qualified name and the last such record differs from the
\* desired record in content or proxied flag, exactly one PUT is issued
\* for the target, addressed to that last record and carrying the whole
\* desired record, and no POST.
C2_UpdateLastMatch ==
    \A i \in LogIdx :
        LET c == log[i]
            d == Desired(c.type, c.opt, c.sub)
        IN  (/\ IsListing(c)
             /\ Matches(c.res, d.fqdn) # {}
             /\ \/ LastMatch(c.res, d.fqdn).content # d.record.content
                \/ LastMatch(c.res, d.fqdn).proxied # d.record.proxied)
            => /\ Len(TargetCalls("PUT", c.type, c.opt, c.sub)) = 1
               /\ TargetCalls("PUT", c.type, c.opt, c.sub)[1].id
                    = LastMatch(c.res, d.fqdn).id
               /\ TargetCalls("PUT", c.type, c.opt, c.sub)[1].data
                    = [type |-> c.type, name |-> d.fqdn,
                       content |-> SeenIp(c.type).ip,
                       proxied |-> d.record.proxied, ttl |-> ttl]
               /\ TargetCalls("POST", c.type, c.opt, c.sub) = <<>>

\* a PUT went to the last of several listed records of the same name
C2_Witness ==
    \E i \in LogIdx :
        LET c == log[i] IN
        /\ IsListing(c)
        /\ Cardinality(Matches(c.res, Desired(c.type, c.opt, c.sub).fqdn)) >= 2
        /\ Len(TargetCalls("PUT", c.type, c.opt, c.sub)) = 1
        /\ TargetCalls("PUT", c.type, c.opt, c.sub)[1].id = c.res[Len(c.res)].id

\* C3: whenever the last listed record with the target's fully-qualified
\* name has the desired content and the desired proxied flag, no POST, PUT
\* or DELETE is issued for the target; the reconciler issues no DELETE.
C3_NoWriteWhenIdentical ==
    /\ \A i \in LogIdx :
          LET c == log[i]
              d == Desired(c.type, c.opt, c.sub)
          IN  (/\ IsListing(c)
               /\ Matches(c.res, d.fqdn) # {}
               /\ LastMatch(c.res, d.fqdn).content = d.record.content
               /\ LastMatch(c.res, d.fqdn).proxied = d.record.proxied)
              => \A m \in {"POST", "PUT", "DELETE"} :
                    TargetCalls(m, c.type, c.opt, c.sub) = <<>>
    /\ \A i \in LogIdx : log[i].m = "DELETE" => log[i].by = "purge"

\* a target whose record was already right, with another ttl, was
\* reconciled without a write
C3_Witness ==
    \E i \in LogIdx :
        LET c == log[i]
            d == Desired(c.type, c.opt, c.sub)
        IN  /\ IsListing(c)
            /\ Matches(c.res, d.fqdn) # {}
            /\ LastMatch(c.res, d.fqdn).content = d.record.content
            /\ LastMatch(c.res, d.fqdn).proxied = d.record.proxied
            /\ LastMatch(c.res, d.fqdn).ttl # ttl
            /\ pc = "sleep"

\* the calls of the purge of type t for account o
PurgeDeletes(t, o) ==
    SelectSeq(log, LAMBDA c : /\ c.by = "purge" /\ c.m = "DELETE"
                              /\ c.type = t /\ c.opt = o)

Succeeded(calls) == Len(calls) - Failed(calls)

Accounts == 1..Len(config.cloudflare)

Targets(o) == 1..Len(config.cloudflare[o].subdomains)

Enabled(t) == IF t = "A" THEN ipv4_enabled ELSE ipv6_enabled

\* right after the detection step of the family of type t, however that
\* step ended: its endpoints were asked and none gave an address
JustFailed(t) ==
    /\ net # <<>>
    /\ ~Detected(t)
    /\ IF t = "A"
       THEN pc \in {"detect6", "crashed"} /\ net[1].fam = "ipv4"
       ELSE /\ net[1].fam = "ipv6"
            /\ pc = "crashed" \/ (pc = "update" /\ ipIdx = 1)

\* C4: when detection of a family has failed and the configuration
\* enables purging, every account has had one DELETE call for each record
\* of that type its zone held (records still there plus records deleted).
C4_PurgeDeletesEveryRecord ==
    \A t \in {"A", "AAAA"} :
        (JustFailed(t) /\ config.purgeUnknownRecords)
        => \A o \in Accounts :
              Len(PurgeDeletes(t, o))
                = Len(ListRecords(zones, config.cloudflare[o].zone_id, t))
                  + Succeeded(PurgeDeletes(t, o))

\* C5: a DELETE call of the cycle is made by the purge, with the purge
\* toggle set, for a type whose family is enabled and was not detected in
\* the cycle; when the purge has just run, every endpoint of the family
\* had been asked and had failed.
C5_DeleteOnlyOnFailedDetection ==
    \A i \in LogIdx :
        LET c == log[i] IN
        c.m = "DELETE"
        => /\ c.by = "purge"
           /\ purgeUnknownRecords
           /\ Enabled(c.type)
           /\ ~Detected(c.type)
           /\ (c.type = "A" /\ net # <<>> /\ net[1].fam = "ipv4")
              => /\ Len(net) = NumServices
                 /\ \A n \in 1..Len(net) :
                       net[n].r.exc \/ net[n].r.status # HttpOk
           /\ (c.type = "AAAA" /\ net # <<>>)
              => /\ Len(net) = 2
                 /\ \A n \in 1..Len(net) :
                       net[n].fam = "ipv6" /\ ~FetchTrace(net[n].r).some

\* purging is disabled, by the configuration and by the toggle of the
\* script; in a second cycle an IPv4 address was detected and the IPv6
\* detection has just failed; the zone of the first account still holds
\* its A and its AAAA records and no DELETE call was made
C5_Witness ==
    /\ ~config.purgeUnknownRecords /\ ~purgeUnknownRecords
    /\ cycle = 2
    /\ Detected("A")
    /\ JustFailed("AAAA")
    /\ ListRecords(zones, config.cloudflare[1].zone_id, "A") # <<>>
    /\ ListRecords(zones, config.cloudflare[1].zone_id, "AAAA") # <<>>
    /\ \A i \in LogIdx : log[i].m # "DELETE"

ZoneCalls(t, o) ==
    SelectSeq(log, LAMBDA c : c.ep = "zone" /\ c.type = t /\ c.opt = o)

ZoneFailed(t, o) == ZoneCalls(t, o) # <<>> /\ ~ZoneCalls(t, o)[1].ok

ZoneOk(t, o) == ZoneCalls(t, o) # <<>> /\ ZoneCalls(t, o)[1].ok

Listed(t, o, s) ==
    \E i \in LogIdx : /\ log[i].by = "reconcile" /\ log[i].ep = "list"
                      /\ log[i].type = t /\ log[i].opt = o /\ log[i].sub = s

\* C6: at the end of a cycle, for each detected type, every account that
\* comes after an account whose zone lookup failed has had its own zone
\* lookup and, when that succeeded, a list call for each of its targets.
C6_LaterAccountsProcessed ==
    pc = "sleep"
    => \A k \in 1..Len(seen) : \A o \in Accounts :
          (\E o1 \in 1..(o - 1) : ZoneFailed(seen[k].type, o1))
          => /\ ZoneCalls(seen[k].type, o) # <<>>
             /\ ZoneOk(seen[k].type, o)
                => \A s \in Targets(o) : Listed(seen[k].type, o, s)

HasName(o, s) == config.cloudflare[o].subdomains[s].hasName

\* processing target s of account o for type t met a failure: one of its
\* calls failed, or the target cannot be processed
FailedAt(t, o, s) ==
    \/ \E i \in LogIdx : /\ log[i].by = "reconcile" /\ log[i].type = t
                         /\ log[i].opt = o /\ log[i].sub = s /\ ~log[i].ok
    \/ ZoneOk(t, o) /\ ~HasName(o, s)

\* C7: at the end of a cycle, for each detected type, every target that
\* comes after a target whose processing met a failure, that has a name
\* and whose account's zone lookup did not fail, has had its list call.
C7_LaterTargetsProcessed ==
    pc = "sleep"
    => \A k \in 1..Len(seen) : \A o \in Accounts : \A s \in Targets(o) :
          (/\ HasName(o, s)
           /\ ~ZoneFailed(seen[k].type, o)
           /\ \E o1 \in 1..o : \E s1 \in Targets(o1) :
                 /\ o1 < o \/ s1 < s
                 /\ FailedAt(seen[k].type, o1, s1))
          => Listed(seen[k].type, o, s)

\* C8: the script is never ended by an exception, it ends only once a
\* stop was requested, and every cycle that starts comes back to the top
\* of the loop.
C8_NoFailureEndsTheLoop ==
    /\ [](pc # "crashed" /\ (pc = "stopped" => kill_now))
    /\ [](pc = "detect4" => <>(pc = "check"))

\* C9: every POST and PUT of the cycle is for an enabled family, carries
\* the type it was issued for and, as content, the address the endpoints
\* of that family gave in this cycle.
C9_WritesCarryDetectedAddress ==
    \A i \in LogIdx :
        LET c == log[i] IN
        c.m \in {"POST", "PUT"}
        => /\ c.data.type = c.type
           /\ Enabled(c.type)
           /\ Detected(c.type)
           /\ c.data.content = SeenIp(c.type).ip

\* in the second cycle an A record that held the other address a service
\* can give was updated to the address detected in this cycle
C9_Witness ==
    /\ cycle = 2
    /\ \E i \in LogIdx :
          /\ log[i].m = "PUT" /\ log[i].type = "A" /\ log[i].ok
          /\ log[i].data.content = SeenIp("A").ip
          /\ \E j \in 1..(i - 1) :
                /\ IsListing(log[j]) /\ log[j].type = "A"
                /\ log[j].opt = log[i].opt /\ log[j].sub = log[i].sub
                /\ \E k \in 1..Len(log[j].res) :
                      /\ log[j].res[k].id = log[i].id
                      /\ log[j].res[k].content \in {<<"1">>, <<"2">>}
                      /\ log[j].res[k].content # SeenIp("A").ip

InTick == {"detect4", "detect6", "update", "commit", "target"}

\* C10: a stop request changes nothing but the flag; the script stops only
\* from the top of the loop with the flag set, a cycle starts only from
\* the top of the loop with the flag unset, nothing is called once the
\* script has stopped, a cycle under way when the flag is set only moves
\* on towards its sleep, and a stop request leads to the stopped script.
C10_StopOnlyAtCycleTop ==
    /\ [][kill_now' # kill_now
          => /\ pc' = pc /\ zones' = zones /\ log' = log /\ ips' = ips
             /\ <<ipIdx', optIdx', subIdx'>> = <<ipIdx, optIdx, subIdx>>]_vars
    /\ [][pc' = "stopped" /\ pc # "stopped" => pc = "check" /\ kill_now]_vars
    /\ [][pc' = "detect4" /\ pc # "detect4" => pc = "check" /\ ~kill_now]_vars
    /\ [][pc = "stopped"
          => pc' = "stopped" /\ log' = log /\ net' = net /\ zones' = zones]_vars
    /\ [][kill_now /\ pc \in InTick => pc' \in InTick \cup {"sleep"}]_vars
    /\ (kill_now ~> pc = "stopped")

\* the name of a target as the claims speak of it: trimmed, in lower case
TargetName(subdomain) == Lower(Strip(subdomain.name))

\* the fully-qualified name the documentation gives a target under a base
\* domain: the base domain itself when the name is absent, empty or "@"
DocumentedFqdn(subdomain, base) ==
    IF ~subdomain.hasName \/ TargetName(subdomain) \in {<<>>, <<"@">>}
    THEN base
    ELSE TargetName(subdomain) \o <<".">> \o base

\* C11: whenever a target of an account is about to be reconciled, the
\* name computed for it is name + "." + base domain for a non-empty name
\* other than "@", and exactly the base domain when the name is absent,
\* empty or "@".
C11_FqdnOfNameAndBase ==
    (pc = "target" /\ subIdx <= Len(config.cloudflare[optIdx].subdomains))
    => LET option == config.cloudflare[optIdx]
           p == prepareDNSRecord(option.subdomains[subIdx], base_domain_name,
                                 ips[ipIdx], option, ttl)
       IN  /\ ~p.raised
           /\ p.fqdn = DocumentedFqdn(option.subdomains[subIdx],
                                      base_domain_name)

\* type t was detected in the cycle before the one under way: until the
\* end of getIPs the global ips still holds what that cycle detected
DetectedBefore(t) == \E i \in 1..Len(ips) : ips[i].type = t

\* the last step printed message msg
Printed(msg) == \E j \in 1..Len(out) : out[j].msg = msg

\* C12: when the detection of a family fails, its warning is printed if
\* and only if this is the first cycle or the family was detected in the
\* cycle before: it is not repeated while detection keeps failing and it
\* is shown again once detection fails after a cycle in which it succeeded.
C12_WarnedOncePerOutage ==
    [][/\ (/\ pc = "detect4" /\ pc' # "detect4"
           /\ ipv4_enabled /\ ~Detected("A")')
          => (Printed("ipv4_failed")' <=> (cycle = 1 \/ DetectedBefore("A")))
       /\ (/\ pc = "detect6" /\ pc' # "detect6"
           /\ ipv6_enabled /\ ~Detected("AAAA")')
          => (Printed("ipv6_secondary")'
                <=> (cycle = 1 \/ DetectedBefore("AAAA")))]_vars

\* the proxied flag that applies to target s of account o: its own
\* override, or else the default of the account
EffectiveProxied(o, s) ==
    LET sub == config.cloudflare[o].subdomains[s]
    IN  IF sub.hasProxied THEN sub.proxied ELSE config.cloudflare[o].proxied

\* the zone of account o holds a record of type t for target s with the
\* detected address and the target's proxied flag
HasDesiredRecord(t, o, s) ==
    LET option == config.cloudflare[o]
        recs   == zones[option.zone_id]
    IN  \E i \in 1..Len(recs) :
           /\ recs[i].type = t
           /\ recs[i].name = DocumentedFqdn(option.subdomains[s],
                                            ZoneName(option.zone_id))
           /\ recs[i].content = SeenIp(t).ip
           /\ recs[i].proxied = EffectiveProxied(o, s)

\* C13: at the end of a cycle in which no provider call failed, for every
\* type whose address was detected, every target of every account has a
\* record of that type with its fully-qualified name, the detected
\* address and its effective proxied flag, whatever the zones held before.
C13_EveryTargetHasItsRecord ==
    (pc = "sleep" /\ \A i \in LogIdx : log[i].ok)
    => \A k \in 1..Len(seen) : \A o \in Accounts : \A s \in Targets(o) :
          HasDesiredRecord(seen[k].type, o, s)

\* the ttl the configuration asks for, the default when it names none
ConfiguredTtl == IF config.hasTtl THEN config.ttl ELSE DefaultTtl

\* C14: the ttl of every POST and PUT payload and every interval slept
\* between two cycles is the larger of the configured ttl and 1, hence
\* never below 1, and 1 for a configured ttl of 0.
C14_TtlIsAtLeastOne ==
    LET floor == IF ConfiguredTtl < 1 THEN 1 ELSE ConfiguredTtl IN
    /\ \A i \in LogIdx :
          log[i].m \in {"POST", "PUT"}
          => log[i].data.ttl = floor /\ log[i].data.ttl >= 1
    /\ \A j \in 1..Len(out) :
          out[j].msg = "slept" => out[j].n = floor /\ out[j].n >= 1

\* with a configured ttl of 0, a cycle that wrote a record with ttl 1 has
\* slept for 1 second
C14_Witness ==
    /\ config.hasTtl /\ config.ttl = 0
    /\ pc = "check"
    /\ out = <<Msg("slept", "", 1)>>
    /\ \E i \in LogIdx : log[i].m \in {"POST", "PUT"} /\ log[i].data.ttl = 1

\* a detection service answered with HTTP 200
Answered(r) == ~r.exc /\ r.status = HttpOk

\* x is text without its leading and trailing whitespace
Trimmed(x, text) ==
    \E i \in 0..Len(text) : \E j \in 0..(Len(text) - i) :
       /\ x = SubSeq(text, i + 1, Len(text) - j)
       /\ \A k \in 1..i : text[k] \in Whitespace
       /\ \A k \in (Len(text) - j + 1)..Len(text) : text[k] \in Whitespace
       /\ x # <<>> => x[1] \notin Whitespace /\ x[Len(x)] \notin Whitespace

\* C15: right after IPv4 detection, however the step ended, the services
\* asked are the first k of the fixed order, each asked once; all but the
\* last asked did not answer 200; when the last asked answered 200 the
\* detected address is its trimmed body and no later service was asked;
\* otherwise all services were asked and IPv4 is undetected.
C15_FirstAnsweringServiceWins ==
    (pc \in {"detect6", "crashed"} /\ net # <<>> /\ net[1].fam = "ipv4")
    => /\ Len(net) <= NumServices
       /\ \A i \in 1..Len(net) : net[i].fam = "ipv4" /\ net[i].n = i
       /\ \A i \in 1..(Len(net) - 1) : ~Answered(net[i].r)
       /\ IF Answered(net[Len(net)].r)
          THEN /\ Detected("A")
               /\ Trimmed(SeenIp("A").ip, net[Len(net)].r.text)
               /\ a = Some(SeenIp("A").ip)
          ELSE /\ Len(net) = NumServices
               /\ ~Detected("A")
               /\ a = None

\* the first service was unreachable and the second answered 200 with an
\* address inside whitespace: the address is detected, the third not asked
C15_Witness ==
    /\ pc = "detect6"
    /\ Len(net) = 2
    /\ net[1].r.exc
    /\ net[2].r = Response(FALSE, HttpOk, <<" ", "2", "\n">>)
    /\ a = Some(<<"2">>)

\* a trace endpoint gave an address: the request and the parsing of its
\* body both went through
TraceGave(r) == FetchTrace(r).some

\* text holds the line "ip=" v, ended by a newline
IpLine(text, v) ==
    /\ \A k \in 1..Len(v) : v[k] \notin {"\n", "="}
    /\ \E i \in 1..Len(text) :
          /\ i = 1 \/ text[i - 1] = "\n"
          /\ i + 3 + Len(v) <= Len(text)
          /\ SubSeq(text, i, i + 2) = <<"i", "p", "=">>
          /\ SubSeq(text, i + 3, i + 2 + Len(v)) = v
          /\ text[i + 3 + Len(v)] = "\n"

\* the IPv6 detection step has just been taken, however it ended
JustAsked6 ==
    \/ pc = "update" /\ ipIdx = 1
    \/ pc = "crashed" /\ net # <<>> /\ net[1].fam = "ipv6"

\* C16: right after IPv6 detection, the primary endpoint was asked, and
\* the secondary exactly when the primary gave no address; IPv6 is
\* detected exactly when the last endpoint asked gave one, the detected
\* address is the value of that endpoint's ip line, and AAAA records are
\* purged only when the purge is on and neither endpoint gave an address.
C16_SecondaryOnlyAfterPrimary ==
    (JustAsked6 /\ net # <<>>)
    => /\ Len(net) \in {1, 2}
       /\ \A i \in 1..Len(net) : net[i].fam = "ipv6" /\ net[i].n = i
       /\ Len(net) = 2 <=> ~TraceGave(net[1].r)
       /\ Detected("AAAA") <=> TraceGave(net[Len(net)].r)
       /\ Detected("AAAA")
          => /\ IpLine(net[Len(net)].r.text, SeenIp("AAAA").ip)
             /\ ips[Len(ips)] = [type |-> "AAAA", ip |-> SeenIp("AAAA").ip]
       /\ (\E i \in LogIdx : log[i].by = "purge" /\ log[i].type = "AAAA")
          => /\ purgeUnknownRecords
             /\ Len(net) = 2
             /\ ~TraceGave(net[2].r)

OtherType(t) == IF t = "A" THEN "AAAA" ELSE "A"

\* in this cycle the family of type t was enabled and not detected, or a
\* provider call made for type t (purge or reconcile) failed
FamilyFailed(t) ==
    \/ Enabled(t) /\ ~Detected(t)
    \/ \E i \in LogIdx : log[i].type = t /\ ~log[i].ok

\* C17: at the end of a cycle, however it ended, in which one family met
\* a failure (its detection failed, with or without a purge and failing
\* calls in it, or a call made while reconciling it failed), the other
\* family, when it was detected, has been reconciled across all accounts:
\* every account had its zone lookup and, where that succeeded, every
\* target its list call.
C17_OtherFamilyReconciled ==
    pc \in {"sleep", "crashed"}
    => \A k \in 1..Len(seen) :
          FamilyFailed(OtherType(seen[k].type))
          => \A o \in Accounts :
                /\ ZoneCalls(seen[k].type, o) # <<>>
                /\ ZoneOk(seen[k].type, o)
                   => \A s \in Targets(o) : Listed(seen[k].type, o, s)

\* the fully-qualified names of the named targets of account o
TargetFqdns(o) ==
    {DocumentedFqdn(config.cloudflare[o].subdomains[s],
                    ZoneName(config.cloudflare[o].zone_id)) :
        s \in {x \in Targets(o) : HasName(o, x)}}

\* call i of the log is a PUT, and an earlier successful list call made
\* for the same type, account and target returned the record it is
\* addressed to, under the name of that target
PutFollowsListing(i) ==
    \E j \in 1..(i - 1) :
       /\ IsListing(log[j])
       /\ log[j].type = log[i].type
       /\ log[j].opt = log[i].opt
       /\ log[j].sub = log[i].sub
       /\ \E k \in 1..Len(log[j].res) :
             /\ log[j].res[k].id = log[i].id
             /\ log[j].res[k].type = log[i].type
             /\ log[j].res[k].name
                  = Desired(log[i].type, log[i].opt, log[i].sub).fqdn
             /\ log[j].res[k].name \in TargetFqdns(log[i].opt)

\* a step taken while the targets of account optIdx are reconciled for
\* the type of ips[ipIdx] keeps, where it is, every record of another
\* zone, of the other type or with a name that is no target's
OtherRecordsKept ==
    \A z \in ZoneIds : \A i \in 1..Len(zones[z]) :
       (\/ z # config.cloudflare[optIdx].zone_id
        \/ zones[z][i].type # ips[ipIdx].type
        \/ zones[z][i].name \notin TargetFqdns(optIdx))
       => i <= Len(zones'[z]) /\ zones'[z][i] = zones[z][i]

\* C18: the reconciler issues no DELETE; every PUT is addressed to a
\* record that the list call made for the same target, type and account
\* in the same cycle returned under the target's fully-qualified name;
\* the records of a zone change only while its targets are reconciled,
\* and then records with other names or of the other type stay as they are.
C18_OnlyTargetRecordsTouched ==
    /\ [](\A i \in LogIdx :
             log[i].by = "reconcile"
             => /\ log[i].m # "DELETE"
                /\ log[i].m = "PUT" => PutFollowsListing(i))
    /\ [][IF pc = "target" THEN OtherRecordsKept ELSE zones' = zones]_vars

\* a record was updated in a zone that also holds a record of the same
\* type under a name no target has, which still has its content
C18_Witness ==
    \E i \in LogIdx :
       /\ log[i].m = "PUT" /\ log[i].ok
       /\ \E k \in 1..Len(zones[config.cloudflare[log[i].opt].zone_id]) :
             LET r == zones[config.cloudflare[log[i].opt].zone_id][k] IN
             /\ r.type = log[i].type
             /\ r.name = OX
             /\ r.content = <<"9">>
             /\ r.name \notin TargetFqdns(log[i].opt)

\* target s of account o is reached when every call of a pass succeeds:
\* it has a name, and so has every target before it
ReachedTarget(o, s) ==
    /\ \A o1 \in 1..(o - 1) : \A s1 \in Targets(o1) : HasName(o1, s1)
    /\ \A s1 \in 1..s : HasName(o, s1)

\* what processDNSRecord would do for target s of account o if it were
\* run again now, with the same address and a list call that succeeds
NextDecision(t, o, s) ==
    LET d == Desired(t, o, s)
    IN  Decide(cf_api(TRUE, ListRecords(zones, config.cloudflare[o].zone_id,
                                        t)),
               d.fqdn, d.record)

\* no other named target of the same zone has the fully-qualified name of
\* target s of account o with another effective proxied flag
AgreedName(o, s) ==
    \A o1 \in Accounts : \A s1 \in Targets(o1) :
       (/\ HasName(o1, s1)
        /\ config.cloudflare[o1].zone_id = config.cloudflare[o].zone_id
        /\ DocumentedFqdn(config.cloudflare[o1].subdomains[s1],
                          ZoneName(config.cloudflare[o1].zone_id))
             = DocumentedFqdn(config.cloudflare[o].subdomains[s],
                              ZoneName(config.cloudflare[o].zone_id)))
       => EffectiveProxied(o1, s1) = EffectiveProxied(o, s)

\* C19 as stated: the state at the end of a cycle in which no provider
\* call failed is a fixed point: a next cycle that detects the same
\* addresses issues no POST and no PUT for any target, also when several
\* targets have the same fully-qualified name or duplicate records exist
\* (the reconciler never issues DELETE).
C19_CleanCycleIsFixedPoint ==
    (pc = "sleep" /\ \A i \in LogIdx : log[i].ok)
    => \A k \in 1..Len(seen) : \A o \in Accounts : \A s \in Targets(o) :
          ReachedTarget(o, s) => NextDecision(seen[k].type, o, s).op = "NONE"

\* C19, amended: a cycle in which no provider call failed has issued no
\* DELETE, and the state at its end is a fixed point for every target
\* whose fully-qualified name no other target of the zone claims with a
\* different proxied flag: a next cycle that detects the same addresses
\* issues no POST and no PUT for it, also when targets share the name and
\* the flag or duplicate records exist.
C19_FixedPointWhereTargetsAgree ==
    (pc = "sleep" /\ \A i \in LogIdx : log[i].ok)
    => /\ \A i \in LogIdx : log[i].m # "DELETE"
       /\ \A k \in 1..Len(seen) : \A o \in Accounts : \A s \in Targets(o) :
             (ReachedTarget(o, s) /\ AgreedName(o, s))
             => NextDecision(seen[k].type, o, s).op = "NONE"

\* the second cycle, without a failed call, has listed two records under
\* the name that two targets of the first account share and has written
\* nothing for that account
C19_Witness ==
    /\ pc = "sleep" /\ cycle = 2
    /\ \A i \in LogIdx : log[i].ok
    /\ Detected("A")
    /\ Len(config.cloudflare[1].subdomains) = 2
    /\ Desired("A", 1, 1).fqdn = Desired("A", 1, 2).fqdn
    /\ \E i \in LogIdx :
          /\ IsListing(log[i]) /\ log[i].type = "A"
          /\ log[i].opt = 1 /\ log[i].sub = 2
          /\ Cardinality(Matches(log[i].res, Desired("A", 1, 2).fqdn)) >= 2
    /\ \A i \in LogIdx : log[i].opt = 1 => log[i].m = "GET"
    /\ NextDecision("A", 1, 1).op = "NONE"
    /\ NextDecision("A", 1, 2).op = "NONE"

\* C20: whenever the last listed record with the target's name has the
\* desired content and proxied flag and another ttl than the configured
\* one, no PUT and no POST is issued for the target; and every PUT of the
\* cycle goes to a listed record that differs from the desired one in
\* content or proxied flag, so a ttl alone is never written.
C20_TtlAloneIsNotWritten ==
    /\ \A i \in LogIdx :
          LET c == log[i]
              d == Desired(c.type, c.opt, c.sub)
          IN  (/\ IsListing(c)
               /\ Matches(c.res, d.fqdn) # {}
               /\ LastMatch(c.res, d.fqdn).content = d.record.content
               /\ LastMatch(c.res, d.fqdn).proxied = d.record.proxied
               /\ LastMatch(c.res, d.fqdn).ttl # d.record.ttl)
              => /\ TargetCalls("PUT", c.type, c.opt, c.sub) = <<>>
                 /\ TargetCalls("POST", c.type, c.opt, c.sub) = <<>>
    /\ \A i \in LogIdx :
          log[i].m = "PUT"
          => \E j \in 1..(i - 1) : \E k \in 1..Len(log[j].res) :
                /\ IsListing(log[j])
                /\ log[j].type = log[i].type
                /\ log[j].opt = log[i].opt /\ log[j].sub = log[i].sub
                /\ log[j].res[k].id = log[i].id
                /\ \/ log[j].res[k].content # log[i].data.content
                   \/ log[j].res[k].proxied # log[i].data.proxied

\* a record with the desired content and flag and a ttl of 300, where 1
\* is configured, was listed for its target, no call followed, and the
\* zone still holds it with its ttl of 300
C20_Witness ==
    \E i \in LogIdx :
       LET c == log[i] IN
       /\ IsListing(c)
       /\ ttl = 1
       /\ Matches(c.res, Desired(c.type, c.opt, c.sub).fqdn) # {}
       /\ LET r == LastMatch(c.res, Desired(c.type, c.opt, c.sub).fqdn)
              z == config.cloudflare[c.opt].zone_id
          IN  /\ r.content = SeenIp(c.type).ip
              /\ r.proxied = Desired(c.type, c.opt, c.sub).record.proxied
              /\ r.ttl = 300
              /\ TargetCalls("PUT", c.type, c.opt, c.sub) = <<>>
              /\ \E k \in 1..Len(zones[z]) : zones[z][k] = r

====
